---- MODULE Spec2Model ----
(***************************************************************************)
(* Model of course/A1_defensive_programming/solutions/ex6_error_recovery.py *)
(* and of the BankAccount of solutions/ex5_design_by_contract.py.          *)
(*                                                                         *)
(* Independent components, each with its own specification:                *)
(*   SpecRetry   retry_with_backoff                                        *)
(*   SpecConfig  ConfigManager (__init__, _load_config, get,               *)
(*               validate_config)                                          *)
(*   SpecProc    DataProcessor (process_data, _process_single_item)        *)
(*   SpecFetch   fetch_user_data over retry_with_backoff                   *)
(*   SpecFile    safe_file_operation and the with statement around it      *)
(*   SpecBank    BankAccount (__init__, deposit, withdraw)                 *)
(*   SpecSearch  binary_search and is_sorted                               *)
(*   SpecRegister  register_user and its validators (ex3)                  *)
(*                                                                         *)
(* Python values are pairs <<type, n>> so that values of different Python  *)
(* types can be compared: <<"int", 200>>, <<"float", 300>> (tenths),       *)
(* <<"str", k>> (the k-th string), <<"bool", 0 or 1>>, None.  A container *)
(* is a record [type, items]: a dict's items map its keys to values.       *)
(* Delays are whole time units; min and * act on them as on floats.        *)
(***************************************************************************)
EXTENDS Integers, Sequences, FiniteSets, TLC

VARIABLES
    \* ---- retry_with_backoff: one call
    r_pc,            \* "idle" | "loop" | "exhausted" | "done"
    max_attempts,    \* parameter
    base_delay,      \* parameter
    max_delay,       \* parameter
    attempt,         \* loop variable of `for attempt in range(max_attempts)`
    last_exception,  \* local
    r_out,           \* what the caller of retry_with_backoff observes
    log,             \* history: every func() call and every time.sleep(), in order
    \* ---- ConfigManager: one instance
    c_pc,            \* "new" | "constructed" | "failed"
    source,          \* what config_file holds on disk
    config,          \* self.config
    c_raised,        \* exception that left __init__, or None
    last_get,        \* the last get() call and its result
    last_validate,   \* the last validate_config() call made by a caller and its result
    \* ---- DataProcessor: one instance
    p_pc,            \* "idle" | "loop" | "finish" | "done"
    error_count,     \* self.error_count
    data,            \* argument of the running process_data call
    random_patch,    \* tenths random.random() is patched to return; Unpatched if it is not
    i,               \* enumerate index of the loop (1-based position of the next item)
    processed_items, \* local
    p_out,           \* what the caller of process_data observes
    attempts,        \* history: the item attempts of the running call, in order,
                     \* each with the item as it was given
    start_errors,    \* history: error_count when the running call started
    failed_total,    \* history: item attempts that failed, over the instance's life
    calls,           \* history: process_data calls started on the instance
    \* ---- fetch_user_data: one call
    f_pc,            \* "idle" | "try" | "done"
    user_id,         \* parameter
    f_out,           \* what the caller of fetch_user_data observes
    \* ---- safe_file_operation: one with statement
    s_pc,            \* "idle" | "body" | "left"
    file,            \* what filename names on disk
    mode,            \* parameter
    file_handle,     \* local: "None", or the file object, "open" or "closed"
    yielded,         \* what the body is given: "handle" | "None"
    gen,             \* where the generator stands: "new" | "try" | "handler" |
                     \* "handler_again" | "finished" | "collected"
    uses,            \* history: reads and writes the body made on the handle
    s_out,           \* how the with statement was left, as its caller observes
    yields,          \* history: how many times the generator has yielded
    body_raised,     \* history: the exception the body raised, or "none"
    \* ---- BankAccount: one instance
    b_pc,            \* "new" | "open" | "failed"
    account_number,  \* self.account_number
    balance,         \* self.balance, a float
    transactions,    \* self.transactions
    b_out,           \* the last call on the account and how it ended
    initial_balance, \* history: the balance the account was opened with
    accepted_ops,    \* history: the deposits and withdrawals that returned, in order
    \* ---- binary_search: one call
    bs_pc,           \* "idle" | "loop" | "done"
    sorted_list,     \* parameter
    target,          \* parameter
    original_list,   \* local: the copy taken at line 171
    left,            \* local
    right,           \* local
    bs_steps,        \* history: iterations of the while loop
    bs_out,          \* what the caller of binary_search observes
    \* ---- register_user: one call
    g_pc,            \* "idle" | "username" | "email" | "password" | "age" |
                     \* "return" | "done"
    username,        \* parameter
    email,           \* parameter
    password,        \* parameter
    age,             \* parameter
    g_out            \* what the caller of register_user observes

retryVars == <<r_pc, max_attempts, base_delay, max_delay, attempt, last_exception, r_out, log>>
configVars == <<c_pc, source, config, c_raised, last_get, last_validate>>
procVars == <<p_pc, error_count, data, random_patch, i, processed_items, p_out,
              attempts, start_errors, failed_total, calls>>
fetchVars == <<f_pc, user_id, f_out>>
fileVars == <<s_pc, file, mode, file_handle, yielded, gen, uses, s_out,
              yields, body_raised>>
bankVars == <<b_pc, account_number, balance, transactions, b_out,
              initial_balance, accepted_ops>>
searchVars == <<bs_pc, sorted_list, target, original_list, left, right, bs_steps, bs_out>>
registerVars == <<g_pc, username, email, password, age, g_out>>
vars == <<retryVars, configVars, procVars, fetchVars, fileVars, bankVars,
         searchVars,
         registerVars>>

None == <<"NoneType", 0>>

EmptyMap == [k \in {} |-> None]
Dict(m) == [type |-> "dict", items |-> m]
NonDict(t) == [type |-> t, items |-> EmptyMap]

Min(a, b) == IF a <= b THEN a ELSE b

(***************************************************************************)
(* retry_with_backoff                                                      *)
(***************************************************************************)

\* Bounds of the inputs
MaxAttempts == 4
MaxBaseDelay == 3
MaxMaxDelay == 5

\* Results func() may return and exception types it may raise (all derive
\* from Exception).  The exception raised by the j-th call is the object
\* <<type, j>>: two raises never give the same object.
FuncResults == {<<"str", 1>>, <<"str", 2>>}
FuncErrors == {"NetworkError", "ValueError"}

NoOutcome == [kind |-> "none", val |-> None]

CallEvent(ok, x) == [ev |-> "call", ok |-> ok, x |-> x]
SleepEvent(d) == [ev |-> "sleep", ok |-> TRUE, x |-> <<"seconds", d>>]

IsCall(e) == e.ev = "call"
IsSleep(e) == e.ev = "sleep"
CallsOf(l) == SelectSeq(l, IsCall)
SleepsOf(l) == SelectSeq(l, IsSleep)

\* Mutation of InRange: one iteration too many.
InRangeInclusive(a, n) == a <= n

\* range(max_attempts): is there an iteration for this value of attempt
InRange(a, n) == a < n

\* Mutation of SleepsAfter: the last failure is slept on too.
SleepsAfterEvery(a, n) == TRUE

\* line 74: `if attempt < max_attempts - 1`
SleepsAfter(a, n) == a < n - 1

\* Mutation of Delay: the cap is forgotten.
DelayUncapped(b, a, m) == b * (2 ^ a)

\* line 75: min(base_delay * (2 ** attempt), max_delay)
Delay(b, a, m) == Min(b * (2 ^ a), m)

\* Mutation of Remember: the first failure is kept.
RememberFirst(last, e) == IF last = None THEN e ELSE last

\* line 71: last_exception = e
Remember(last, e) == e

RetryIdle ==
    /\ r_pc = "idle"
    /\ max_attempts = 0
    /\ base_delay = 0
    /\ max_delay = 0
    /\ attempt = 0
    /\ last_exception = None
    /\ r_out = NoOutcome
    /\ log = <<>>

\* The call: parameters bound, line 62, and the loop entered.
RetryCall(n, b, m) ==
    /\ r_pc = "idle"
    /\ max_attempts' = n
    /\ base_delay' = b
    /\ max_delay' = m
    /\ last_exception' = None
    /\ attempt' = 0
    /\ r_pc' = IF InRange(0, n) THEN "loop" ELSE "exhausted"
    /\ UNCHANGED <<r_out, log>>
    /\ UNCHANGED <<configVars, procVars, fetchVars, fileVars, bankVars, searchVars, registerVars>>

\* One iteration whose func() returns v: lines 66-69.
AttemptReturns(v) ==
    /\ r_pc = "loop"
    /\ log' = Append(log, CallEvent(TRUE, v))
    /\ r_out' = [kind |-> "returned", val |-> v]
    /\ r_pc' = "done"
    /\ UNCHANGED <<max_attempts, base_delay, max_delay, attempt, last_exception>>
    /\ UNCHANGED <<configVars, procVars, fetchVars, fileVars, bankVars, searchVars, registerVars>>

\* One iteration whose func() raises an exception of type t: lines 66-67, 70-77.
AttemptRaises(t) ==
    LET e == <<t, Len(CallsOf(log)) + 1>>
        called == Append(log, CallEvent(FALSE, e))
    IN  /\ r_pc = "loop"
        /\ last_exception' = Remember(last_exception, e)
        /\ log' = IF SleepsAfter(attempt, max_attempts)
                  THEN Append(called, SleepEvent(Delay(base_delay, attempt, max_delay)))
                  ELSE called
        /\ attempt' = attempt + 1
        /\ r_pc' = IF InRange(attempt + 1, max_attempts) THEN "loop" ELSE "exhausted"
        /\ UNCHANGED <<max_attempts, base_delay, max_delay, r_out>>
        /\ UNCHANGED <<configVars, procVars, fetchVars, fileVars, bankVars, searchVars, registerVars>>

\* Lines 79-80: `raise last_exception`; raising None is a TypeError.
RaiseLast ==
    /\ r_pc = "exhausted"
    /\ r_out' = [kind |-> "raised",
                 val |-> IF last_exception = None THEN <<"TypeError", 0>>
                         ELSE last_exception]
    /\ r_pc' = "done"
    /\ UNCHANGED <<max_attempts, base_delay, max_delay, attempt, last_exception, log>>
    /\ UNCHANGED <<configVars, procVars, fetchVars, fileVars, bankVars, searchVars, registerVars>>

(***************************************************************************)
(* ConfigManager                                                           *)
(***************************************************************************)

\* line 91-96: self.defaults
defaults ==
    [k \in {"database_url", "cache_size", "timeout", "debug"} |->
        CASE k = "database_url" -> <<"str", 0>>
          [] k = "cache_size" -> <<"int", 100>>
          [] k = "timeout" -> <<"int", 30>>
          [] k = "debug" -> <<"bool", 0>>]

\* Keys a configuration file may hold, and the values json.load can give them.
FileKeys == {"database_url", "cache_size", "timeout", "debug", "custom_key"}
CheckedKeys == {"cache_size", "timeout", "debug"}
JsonScalars == {<<"int", 0 - 10>>, <<"int", 200>>, <<"float", 300>>, <<"str", 1>>,
                <<"bool", 1>>, <<"bool", 0>>, None}
ValuesFor(k) == IF k \in CheckedKeys THEN JsonScalars ELSE {<<"str", 1>>}
JsonObjects ==
    UNION {{m \in [D -> JsonScalars] : \A k \in D : m[k] \in ValuesFor(k)} :
           D \in SUBSET FileKeys}
\* A file whose JSON text parses to something that is not an object.
JsonNonObjects == {NonDict("list"), NonDict("str"), NonDict("int"), NonDict("NoneType")}

\* What open() and json.load() meet: the file is missing, may not be read,
\* is not text, is not JSON, or parses to a value.
Sources ==
    {[kind |-> k, value |-> Dict(EmptyMap)] :
        k \in {"missing", "denied", "undecodable", "invalid_json"}}
    \cup {[kind |-> "json", value |-> Dict(m)] : m \in JsonObjects}
    \cup {[kind |-> "json", value |-> v] : v \in JsonNonObjects}

\* Keys and fallbacks get() is called with.  A call either passes a fallback
\* argument or leaves the parameter at its default, None.
GetKeys == FileKeys \cup {"unknown_key"}
Fallbacks == {None, <<"str", 2>>, <<"int", 0>>}
GetArgs ==
    {[supplied |-> FALSE, fallback |-> None]}
    \cup {[supplied |-> TRUE, fallback |-> f] : f \in Fallbacks}

NoGet == [key |-> "", supplied |-> FALSE, fallback |-> None, result |-> None]

NoValidate == [called |-> FALSE, issues |-> <<>>]

\* isinstance(v, int): bool is a subclass of int.  isinstance(v, (int, float)).
IsInstanceInt(v) == v[1] \in {"int", "bool"}
IsInstanceNumber(v) == v[1] \in {"int", "bool", "float"}
IsInstanceBool(v) == v[1] = "bool"

\* dict.get(key): the value stored, None for a key that is not there.
DictGet(m, key) == IF key \in DOMAIN m THEN m[key] ELSE None

\* Lines 161, 167, 172: the messages, and the key each one names.
IssueOf(key) ==
    CASE key = "cache_size" -> "cache_size must be a positive integer"
      [] key = "timeout" -> "timeout must be a positive number"
      [] key = "debug" -> "debug must be a boolean"

\* Mutation of DebugIssue: the debug flag is never checked.
DebugIssueNever(v) == FALSE

\* Lines 158-161, 164-167, 170-172: is there an issue with this key.
\* v[2] is the number compared: an int, tenths for a float, 0 or 1 for a bool.
CacheSizeIssue(v) == v # None /\ (~IsInstanceInt(v) \/ v[2] < 1)
TimeoutIssue(v) == v # None /\ (~IsInstanceNumber(v) \/ v[2] <= 0)
DebugIssue(v) == v # None /\ ~IsInstanceBool(v)

\* Lines 148-174, on a dict.
validate_config(cfg) ==
    (IF CacheSizeIssue(DictGet(cfg.items, "cache_size"))
        THEN <<IssueOf("cache_size")>> ELSE <<>>)
    \o (IF TimeoutIssue(DictGet(cfg.items, "timeout"))
        THEN <<IssueOf("timeout")>> ELSE <<>>)
    \o (IF DebugIssue(DictGet(cfg.items, "debug"))
        THEN <<IssueOf("debug")>> ELSE <<>>)

\* Mutation of TryBodyRaises: the loaded value is not validated.
TryBodyRaisesUnvalidated(src) ==
    CASE src.kind = "missing" -> "FileNotFoundError"
      [] src.kind = "denied" -> "PermissionError"
      [] src.kind = "undecodable" -> "UnicodeDecodeError"
      [] src.kind = "invalid_json" -> "JSONDecodeError"
      [] OTHER -> "none"

\* Lines 102-109: the exception the try body raises, or "none".
\* validate_config calls self.config.get, which only a dict has.
TryBodyRaises(src) ==
    CASE src.kind = "missing" -> "FileNotFoundError"
      [] src.kind = "denied" -> "PermissionError"
      [] src.kind = "undecodable" -> "UnicodeDecodeError"
      [] src.kind = "invalid_json" -> "JSONDecodeError"
      [] OTHER -> IF src.value.type = "dict" THEN "none" ELSE "AttributeError"

\* Mutation of Caught: the `except Exception` clause is missing.
CaughtNamedOnly(exc) == exc \in {"FileNotFoundError", "JSONDecodeError"}

\* Mutation of Caught: only the errors of open() are handled.
CaughtOpenErrorsOnly(exc) == exc \in {"FileNotFoundError", "PermissionError"}

\* Lines 111, 114, 118: the except clauses; every exception type above is a
\* subclass of Exception.
Caught(exc) ==
    \/ exc = "FileNotFoundError"
    \/ exc = "JSONDecodeError"
    \/ exc \in {"FileNotFoundError", "PermissionError", "UnicodeDecodeError",
                "JSONDecodeError", "AttributeError"}

\* Mutation of _load_config: the handlers log and leave self.config alone.
_load_configHandlersOnlyLog(before, src) ==
    LET exc == TryBodyRaises(src)
        assigned == IF src.kind = "json" THEN src.value ELSE before
    IN  IF exc = "none" THEN [config |-> assigned, raised |-> None]
        ELSE IF Caught(exc) THEN [config |-> assigned, raised |-> None]
        ELSE [config |-> assigned, raised |-> <<exc, 0>>]

\* Mutation of _load_config: content with validation issues is dropped for
\* the defaults.
_load_configRejectsInvalid(before, src) ==
    LET exc == TryBodyRaises(src)
        assigned == IF src.kind = "json" THEN src.value ELSE before
    IN  IF exc = "none"
        THEN [config |-> IF validate_config(assigned) = <<>> THEN assigned
                         ELSE Dict(defaults),
              raised |-> None]
        ELSE IF Caught(exc) THEN [config |-> Dict(defaults), raised |-> None]
        ELSE [config |-> assigned, raised |-> <<exc, 0>>]

\* Lines 99-121.  `before` is self.config when _load_config is entered.
\* Line 103 assigns self.config once open and json.load have succeeded.
_load_config(before, src) ==
    LET exc == TryBodyRaises(src)
        assigned == IF src.kind = "json" THEN src.value ELSE before
    IN  IF exc = "none" THEN [config |-> assigned, raised |-> None]
        ELSE IF Caught(exc) THEN [config |-> Dict(defaults), raised |-> None]
        ELSE [config |-> assigned, raised |-> <<exc, 0>>]

\* Mutation of get: the defaults are consulted before the fallback.
getDefaultsFirst(cfg, key, fallback) ==
    IF key \in DOMAIN cfg.items THEN cfg.items[key]
    ELSE IF key \in DOMAIN defaults THEN defaults[key]
    ELSE fallback

\* Lines 123-146.
get(cfg, key, fallback) ==
    IF key \in DOMAIN cfg.items THEN cfg.items[key]
    ELSE IF fallback # None THEN fallback
    ELSE IF key \in DOMAIN defaults THEN defaults[key]
    ELSE None

ConfigIdle ==
    /\ c_pc = "new"
    /\ source = [kind |-> "missing", value |-> Dict(EmptyMap)]
    /\ config = Dict(EmptyMap)
    /\ c_raised = None
    /\ last_get = NoGet
    /\ last_validate = NoValidate

\* ConfigManager(config_file): lines 88-97.
Construct(src) ==
    LET loaded == _load_config(Dict(EmptyMap), src)
    IN  /\ c_pc = "new"
        /\ source' = src
        /\ config' = loaded.config
        /\ c_raised' = loaded.raised
        /\ c_pc' = IF loaded.raised = None THEN "constructed" ELSE "failed"
        /\ UNCHANGED <<last_get, last_validate>>
        /\ UNCHANGED <<retryVars, procVars, fetchVars, fileVars, bankVars, searchVars, registerVars>>

\* manager.get(key) or manager.get(key, fallback).  get and validate_config
\* leave the manager as it is, so a behaviour records one call: the first
\* one made.
GetCall(key, args) ==
    /\ c_pc = "constructed"
    /\ last_get = NoGet
    /\ last_validate = NoValidate
    /\ last_get' = [key |-> key, supplied |-> args.supplied, fallback |-> args.fallback,
                    result |-> get(config, key, args.fallback)]
    /\ UNCHANGED <<c_pc, source, config, c_raised, last_validate>>
    /\ UNCHANGED <<retryVars, procVars, fetchVars, fileVars, bankVars, searchVars, registerVars>>

\* manager.validate_config(), called on a constructed manager.
ValidateCall ==
    /\ c_pc = "constructed"
    /\ last_get = NoGet
    /\ last_validate = NoValidate
    /\ last_validate' = [called |-> TRUE, issues |-> validate_config(config)]
    /\ UNCHANGED <<c_pc, source, config, c_raised, last_get>>
    /\ UNCHANGED <<retryVars, procVars, fetchVars, fileVars, bankVars, searchVars, registerVars>>

(***************************************************************************)
(* DataProcessor                                                           *)
(***************************************************************************)

\* Bounds of the inputs
MaxBatch == 6
MaxLaterBatch == 2
MaxCalls == 2

\* line 221: self.max_errors
max_errors == 5

\* random.random() in tenths; line 278 compares it with 0.2
Unpatched == 0 - 1
RandomDraws == {1, 9}
Patches == {Unpatched, 1, 9}
FailureRate == 2

\* time.time() at line 283
Now == <<"float", 0>>

\* The items of a batch: a dict with 'id', a dict without it, or a string.
\* The j-th item of a batch carries j, so that the items of a batch differ;
\* at the odd positions a dict with 'id' comes with a 'status' of its own.
ItemKinds == {"with_id", "without_id", "not_dict"}
Item(kind, j) ==
    CASE kind = "with_id" ->
            IF j % 2 = 1
            THEN Dict(("id" :> <<"int", j>>) @@ ("name" :> <<"str", j>>)
                      @@ ("status" :> <<"str", 1>>))
            ELSE Dict(("id" :> <<"int", j>>) @@ ("name" :> <<"str", j>>))
      [] kind = "without_id" -> Dict("name" :> <<"str", j>>)
      [] OTHER -> NonDict("str")
BatchesUpTo(len) ==
    UNION {{[j \in 1..n |-> Item(kinds[j], j)] : kinds \in [1..n -> ItemKinds]} :
           n \in 0..len}
\* The longest batch of an instance's first call, and of its later calls.
BatchBound(nth) == IF nth = 1 THEN MaxBatch ELSE MaxLaterBatch

\* Lines 271-275: the two validation guards.
WellFormed(item) == item.type = "dict" /\ "id" \in DOMAIN item.items
Malformed(item) == ~WellFormed(item)

\* Lines 282-284: item.copy() with the two keys set.
Transformed(item) ==
    Dict([k \in DOMAIN item.items \cup {"processed_at", "status"} |->
            CASE k = "processed_at" -> Now
              [] k = "status" -> <<"str", 0>>
              [] OTHER -> item.items[k]])

\* Mutation of _process_single_item: the item itself is returned, not a
\* stamped copy.
_process_single_itemUnstamped(item, r) ==
    IF item.type # "dict"
    THEN [ok |-> FALSE, exc |-> "ValueError", item |-> item, input |-> item]
    ELSE IF "id" \notin DOMAIN item.items
         THEN [ok |-> FALSE, exc |-> "ValueError", item |-> item, input |-> item]
    ELSE IF r < FailureRate
         THEN [ok |-> FALSE, exc |-> "ValueError", item |-> item, input |-> item]
    ELSE [ok |-> TRUE, exc |-> "none", item |-> item, input |-> item]

\* Mutation of _process_single_item: the two keys are set on the item itself.
_process_single_itemInPlace(item, r) ==
    IF item.type # "dict"
    THEN [ok |-> FALSE, exc |-> "ValueError", item |-> item, input |-> item]
    ELSE IF "id" \notin DOMAIN item.items
         THEN [ok |-> FALSE, exc |-> "ValueError", item |-> item, input |-> item]
    ELSE IF r < FailureRate
         THEN [ok |-> FALSE, exc |-> "ValueError", item |-> item, input |-> item]
    ELSE [ok |-> TRUE, exc |-> "none", item |-> Transformed(item),
          input |-> Transformed(item)]

\* Lines 257-286; r is what random.random() returns at line 278.  `item` is
\* what is returned, `input` the argument object as the call leaves it: the
\* keys are set on a copy (line 282).
_process_single_item(item, r) ==
    IF item.type # "dict"
    THEN [ok |-> FALSE, exc |-> "ValueError", item |-> item, input |-> item]
    ELSE IF "id" \notin DOMAIN item.items
         THEN [ok |-> FALSE, exc |-> "ValueError", item |-> item, input |-> item]
    ELSE IF r < FailureRate
         THEN [ok |-> FALSE, exc |-> "ValueError", item |-> item, input |-> item]
    ELSE [ok |-> TRUE, exc |-> "none", item |-> Transformed(item), input |-> item]

\* Mutations of BudgetSpent: the comparison is strict; the check is missing.
BudgetSpentLate(count) == count > max_errors
BudgetNeverSpent(count) == FALSE

\* line 248: `if self.error_count >= self.max_errors` after the increment
BudgetSpent(count) == count >= max_errors

\* Mutation of CountError: a failure is counted twice.
CountErrorTwice(count) == count + 2

\* line 244: self.error_count += 1
CountError(count) == count + 1

\* Mutation of ErrorCountAtCall: every call starts a new budget.
ErrorCountReset(count) == 0

\* line 233 and what a new call starts from: self.error_count is kept
ErrorCountAtCall(count) == count

NoResult == [kind |-> "none", exc |-> None, list |-> <<>>]

ProcIdle ==
    /\ p_pc = "idle"
    /\ error_count = 0
    /\ data = <<>>
    /\ random_patch = Unpatched
    /\ i = 1
    /\ processed_items = <<>>
    /\ p_out = NoResult
    /\ attempts = <<>>
    /\ start_errors = 0
    /\ failed_total = 0
    /\ calls = 0

\* processor.process_data(d), with random.random patched or not: lines 233-235.
ProcessStart(d, patch) ==
    /\ p_pc \in {"idle", "done"}
    /\ calls < MaxCalls
    /\ Len(d) <= BatchBound(calls + 1)
    /\ calls' = calls + 1
    /\ data' = d
    /\ random_patch' = patch
    /\ processed_items' = <<>>
    /\ i' = 1
    /\ error_count' = ErrorCountAtCall(error_count)
    /\ start_errors' = ErrorCountAtCall(error_count)
    /\ attempts' = <<>>
    /\ p_out' = NoResult
    /\ p_pc' = IF Len(d) = 0 THEN "finish" ELSE "loop"
    /\ UNCHANGED failed_total
    /\ UNCHANGED <<retryVars, configVars, fetchVars, fileVars, bankVars, searchVars, registerVars>>

\* One iteration of the loop, lines 237-250; r is the random draw.
ProcessItem(r) ==
    LET res == _process_single_item(data[i], r)
        more == IF i + 1 <= Len(data) THEN "loop" ELSE "finish"
    IN  /\ p_pc = "loop"
        /\ random_patch # Unpatched => r = random_patch
        /\ IF res.ok
           THEN /\ processed_items' = Append(processed_items, res.item)
                /\ error_count' = error_count
                /\ failed_total' = failed_total
                /\ p_pc' = more
           ELSE /\ processed_items' = processed_items
                /\ error_count' = CountError(error_count)
                /\ failed_total' = failed_total + 1
                /\ p_pc' = IF BudgetSpent(CountError(error_count)) THEN "finish" ELSE more
        /\ attempts' = Append(attempts,
                [idx |-> i, ok |-> res.ok, given |-> data[i],
                 errors_after |-> IF res.ok THEN error_count ELSE CountError(error_count)])
        /\ data' = [data EXCEPT ![i] = res.input]
        /\ i' = i + 1
        /\ UNCHANGED <<random_patch, p_out, start_errors, calls>>
        /\ UNCHANGED <<retryVars, configVars, fetchVars, fileVars, bankVars, searchVars, registerVars>>

\* Lines 252-255: the success rate divides by len(data), then the return.
ProcessFinish ==
    /\ p_pc = "finish"
    /\ p_out' = IF Len(data) = 0
                THEN [kind |-> "raised", exc |-> <<"ZeroDivisionError", 0>>, list |-> <<>>]
                ELSE [kind |-> "returned", exc |-> None, list |-> processed_items]
    /\ p_pc' = "done"
    /\ UNCHANGED <<error_count, data, random_patch, i, processed_items, attempts,
                   start_errors, failed_total, calls>>
    /\ UNCHANGED <<retryVars, configVars, fetchVars, fileVars, bankVars, searchVars, registerVars>>

(***************************************************************************)
(* fetch_user_data                                                         *)
(***************************************************************************)

\* Bounds of the inputs
MaxUserId == 3
MaxTimestamp == 2

\* line 334: max_attempts=3; line 46: the defaults of base_delay and max_delay
fetch_max_attempts == 3
default_base_delay == 1
default_max_delay == 60

\* A string literal, and an f-string with one number in it.
Text(s) == <<s, 0>>
Format(s, n) == <<s, n>>

UserIds == {<<"int", n>> : n \in 1..MaxUserId}

\* line 42: what unreliable_network_call returns; time.time() is the t-th
\* instant.
Response(t) ==
    Dict([k \in {"status", "data", "timestamp"} |->
            CASE k = "status" -> Text("success")
              [] k = "data" -> Text("Important data")
              [] k = "timestamp" -> <<"float", t>>])
Responses == {Response(t) : t \in 1..MaxTimestamp}

\* Lines 321-327.
fallback_data(uid) ==
    Dict([k \in {"id", "name", "email", "status", "last_seen"} |->
            CASE k = "id" -> uid
              [] k = "name" -> Text("Guest User")
              [] k = "email" -> Text("guest@example.com")
              [] k = "status" -> Text("fallback")
              [] k = "last_seen" -> None])

\* Lines 338-344; result["timestamp"] is read at line 343.
user_data(uid, result) ==
    Dict([k \in {"id", "name", "email", "status", "last_seen"} |->
            CASE k = "id" -> uid
              [] k = "name" -> Format("User %d", uid[2])
              [] k = "email" -> Format("user%d@example.com", uid[2])
              [] k = "status" -> Text("active")
              [] k = "last_seen" -> result.items["timestamp"]])

NoRecord == [kind |-> "none", val |-> Dict(EmptyMap), exc |-> None]

\* Mutation of FetchCaught: only the network's own error is handled.
FetchCaughtNetworkOnly(e) == e[1] = "NetworkError"

\* line 349: `except Exception`; every exception type of the model derives
\* from Exception.
FetchCaught(e) == e[1] \in {"NetworkError", "ValueError", "TypeError", "KeyError"}

\* Lines 329-352, once retry_with_backoff has ended with `out`.
fetch_result(uid, out) ==
    LET raised == IF out.kind = "raised" THEN out.val
                  ELSE IF "timestamp" \in DOMAIN out.val.items THEN None
                  ELSE <<"KeyError", 0>>
    IN  IF raised = None
        THEN [kind |-> "returned", val |-> user_data(uid, out.val), exc |-> None]
        ELSE IF FetchCaught(raised)
        THEN [kind |-> "returned", val |-> fallback_data(uid), exc |-> None]
        ELSE [kind |-> "raised", val |-> Dict(EmptyMap), exc |-> raised]

FetchIdle ==
    /\ f_pc = "idle"
    /\ user_id = None
    /\ f_out = NoRecord

\* fetch_user_data(uid): lines 321-331, up to the call of retry_with_backoff.
FetchStart(uid) ==
    /\ f_pc = "idle"
    /\ user_id' = uid
    /\ f_pc' = "try"
    /\ UNCHANGED f_out
    /\ UNCHANGED <<retryVars, configVars, procVars, fileVars, bankVars, searchVars, registerVars>>

\* Lines 332-335: retry_with_backoff(lambda: unreliable_network_call(0.4),
\* max_attempts=3).
FetchRetry ==
    /\ f_pc = "try"
    /\ RetryCall(fetch_max_attempts, default_base_delay, default_max_delay)

\* Lines 337-352: retry_with_backoff has returned or raised.
FetchReturn ==
    /\ f_pc = "try"
    /\ r_pc = "done"
    /\ f_out' = fetch_result(user_id, r_out)
    /\ f_pc' = "done"
    /\ UNCHANGED user_id
    /\ UNCHANGED <<retryVars, configVars, procVars, fileVars, bankVars, searchVars, registerVars>>

(***************************************************************************)
(* safe_file_operation                                                     *)
(***************************************************************************)

\* Bound of the inputs
MaxUses == 3

\* What filename names, and the modes the manager is entered with ("zz" is
\* not a mode).
Files == {"present", "missing", "unreadable", "directory"}
Modes == {"r", "w", "zz"}

\* Exceptions the body may raise; KeyboardInterrupt is not an Exception.
BodyErrors == {"ValueError", "FileNotFoundError", "PermissionError",
               "AttributeError", "KeyboardInterrupt"}
IsException(e) == e # "KeyboardInterrupt"

\* line 191: open(filename, mode); "none" when the file is opened.
OpenRaises(f, m) ==
    CASE m = "zz" -> "ValueError"
      [] f = "unreadable" -> "PermissionError"
      [] f = "directory" -> "IsADirectoryError"
      [] f = "missing" /\ m = "r" -> "FileNotFoundError"
      [] OTHER -> "none"

NotLeft == [kind |-> "none", exc |-> None]

\* Lines 203-209: the finally clause.
Finally(handle) == IF handle = "None" THEN "None" ELSE "closed"

FileIdle ==
    /\ s_pc = "idle"
    /\ file = "present"
    /\ mode = "r"
    /\ file_handle = "None"
    /\ yielded = "None"
    /\ gen = "new"
    /\ uses = 0
    /\ s_out = NotLeft
    /\ yields = 0
    /\ body_raised = "none"

\* `with safe_file_operation(filename, mode) as f:` -- __enter__ runs the
\* generator to its first yield: line 193, or line 196, 199 or 202 when open
\* raised (every error of open is an Exception).
Enter(f, m) ==
    /\ s_pc = "idle"
    /\ file' = f
    /\ mode' = m
    /\ IF OpenRaises(f, m) = "none"
       THEN /\ file_handle' = "open"
            /\ yielded' = "handle"
            /\ gen' = "try"
       ELSE /\ file_handle' = "None"
            /\ yielded' = "None"
            /\ gen' = "handler"
    /\ s_pc' = "body"
    /\ yields' = 1
    /\ UNCHANGED <<uses, s_out, body_raised>>
    /\ UNCHANGED <<retryVars, configVars, procVars, fetchVars, bankVars, searchVars, registerVars>>

\* The body reads or writes through the handle it was given.
BodyUses ==
    /\ s_pc = "body"
    /\ yielded = "handle"
    /\ uses < MaxUses
    /\ uses' = uses + 1
    /\ UNCHANGED <<s_pc, file, mode, file_handle, yielded, gen, s_out, yields,
                   body_raised>>
    /\ UNCHANGED <<retryVars, configVars, procVars, fetchVars, bankVars, searchVars, registerVars>>

\* The body ends: __exit__ resumes the generator, which leaves the try
\* statement (or the handler) through the finally clause and finishes.
BodyCompletes ==
    /\ s_pc = "body"
    /\ file_handle' = Finally(file_handle)
    /\ gen' = "finished"
    /\ s_out' = [kind |-> "normal", exc |-> None]
    /\ s_pc' = "left"
    /\ UNCHANGED <<file, mode, yielded, uses, yields, body_raised>>
    /\ UNCHANGED <<retryVars, configVars, procVars, fetchVars, bankVars, searchVars, registerVars>>

\* The body raises e: __exit__ throws e into the generator at its yield.
\* At line 193 an Exception is caught by a clause of lines 194-202, whose
\* `yield None` suspends the generator a second time: contextlib raises
\* RuntimeError("generator didn't stop after throw()"), after closing the
\* generator (Python 3.12 and later) or without closing it (before), so the
\* finally clause has run or has not when the with statement is left.  An
\* exception that is not an Exception, and any exception thrown at the yield
\* of a handler, passes through the finally clause and propagates.
BodyRaises(e, closes_generator) ==
    /\ s_pc = "body"
    /\ IF gen = "try" /\ IsException(e)
       THEN /\ gen' = IF closes_generator THEN "finished" ELSE "handler_again"
            /\ file_handle' = IF closes_generator THEN Finally(file_handle)
                               ELSE file_handle
            /\ s_out' = [kind |-> "raised", exc |-> <<"RuntimeError", 0>>]
            /\ yields' = yields + 1
       ELSE /\ gen' = "finished"
            /\ file_handle' = Finally(file_handle)
            /\ s_out' = [kind |-> "raised", exc |-> <<e, 0>>]
            /\ yields' = yields
    /\ body_raised' = e
    /\ s_pc' = "left"
    /\ UNCHANGED <<file, mode, yielded, uses>>
    /\ UNCHANGED <<retryVars, configVars, procVars, fetchVars, bankVars, searchVars, registerVars>>

\* The suspended generator is collected some time after the with statement:
\* its close() raises GeneratorExit at the yield, and the finally clause runs.
Collected ==
    /\ s_pc = "left"
    /\ gen = "handler_again"
    /\ gen' = "collected"
    /\ file_handle' = Finally(file_handle)
    /\ UNCHANGED <<s_pc, file, mode, yielded, uses, s_out, yields, body_raised>>
    /\ UNCHANGED <<retryVars, configVars, procVars, fetchVars, bankVars, searchVars, registerVars>>

(***************************************************************************)
(* BankAccount (ex5_design_by_contract.py)                                 *)
(***************************************************************************)

\* Bounds of the inputs
MaxAmount == 2
MaxOps == 3

\* Numbers: the int <<"int", n>>, the float <<"float", n>> and the floats
\* inf, -inf and nan.  The finite values are small, so their sums and
\* differences are exact.
Inf == <<"inf", 0>>
NegInf == <<"-inf", 0>>
NaN == <<"nan", 0>>
Zero == <<"int", 0>>
IsNumber(v) == v[1] \in {"int", "float", "inf", "-inf", "nan"}
IsNaN(v) == v[1] = "nan"
IsInf(v) == v[1] \in {"inf", "-inf"}
\* The order of the numbers that are not nan; Top is above every finite value
\* an account can hold.
Top == MaxAmount * (MaxOps + 1) + 1
Rank(v) ==
    CASE v[1] = "inf" -> Top
      [] v[1] = "-inf" -> 0 - Top
      [] OTHER -> v[2]
\* >, >= and == : every comparison with nan is false.
Gt(x, y) == ~IsNaN(x) /\ ~IsNaN(y) /\ Rank(x) > Rank(y)
Ge(x, y) == ~IsNaN(x) /\ ~IsNaN(y) /\ Rank(x) >= Rank(y)
EqNum(x, y) == ~IsNaN(x) /\ ~IsNaN(y) /\ Rank(x) = Rank(y)
\* float(x), and float + number, float - number.
Float(x) == IF x[1] = "int" THEN <<"float", x[2]>> ELSE x
Negated(y) ==
    CASE y[1] = "inf" -> NegInf
      [] y[1] = "-inf" -> Inf
      [] y[1] = "nan" -> NaN
      [] OTHER -> <<"float", 0 - y[2]>>
Plus(x, y) ==
    IF IsNaN(x) \/ IsNaN(y) THEN NaN
    ELSE IF IsInf(x) /\ IsInf(y) THEN (IF x = y THEN x ELSE NaN)
    ELSE IF IsInf(x) THEN x
    ELSE IF IsInf(y) THEN y
    ELSE <<"float", x[2] + y[2]>>
Minus(x, y) == Plus(x, Negated(y))

\* Arguments of the constructor and of deposit and withdraw.
AccountNumbers == {<<"int", n>> : n \in 0..2} \cup {<<"str", 1>>}
Amounts == {<<"int", n>> : n \in (0 - 1)..MaxAmount} \cup {Inf, NaN, <<"str", 1>>}

NoCall == [op |-> "none", amount |-> Zero, before |-> Zero, kind |-> "none"]
Ended(op, amount, before, kind) ==
    [op |-> op, amount |-> amount, before |-> before, kind |-> kind]

\* Lines 101-107.
_check_invariants(number, bal) == Gt(number, Zero) /\ Ge(bal, Zero)

BankIdle ==
    /\ b_pc = "new"
    /\ account_number = Zero
    /\ balance = <<"float", 0>>
    /\ transactions = <<>>
    /\ b_out = NoCall
    /\ initial_balance = <<"float", 0>>
    /\ accepted_ops = <<>>

\* BankAccount(number, initial): lines 15-34.
Open(number, initial) ==
    LET accepted == /\ number[1] = "int"
                    /\ Gt(number, Zero)
                    /\ IsNumber(initial)
                    /\ Ge(initial, Zero)
    IN  /\ b_pc = "new"
        /\ IF accepted
           THEN /\ account_number' = number
                /\ balance' = Float(initial)
                /\ initial_balance' = Float(initial)
                /\ b_pc' = "open"
           ELSE /\ UNCHANGED <<account_number, balance, initial_balance>>
                /\ b_pc' = "failed"
        /\ UNCHANGED <<transactions, b_out, accepted_ops>>
        /\ UNCHANGED <<retryVars, configVars, procVars, fetchVars, fileVars, searchVars, registerVars>>

\* account.deposit(amount): lines 36-62.  A failed precondition (lines 49-51)
\* raises before anything is changed; a failed postcondition (lines 60-62)
\* raises after the balance and the history were changed.
deposit(amount) ==
    LET pre == /\ IsNumber(amount)
               /\ Gt(amount, Zero)
               /\ _check_invariants(account_number, balance)
        new == Plus(balance, amount)
        post == /\ EqNum(new, Plus(balance, amount))
                /\ _check_invariants(account_number, new)
    IN  /\ b_pc = "open"
        /\ Len(transactions) < MaxOps
        /\ IF pre
           THEN /\ balance' = new
                /\ transactions' = Append(transactions, <<"Deposit", amount>>)
                /\ b_out' = Ended("deposit", amount, balance,
                                  IF post THEN "accepted" ELSE "failed")
                /\ accepted_ops' = IF post THEN Append(accepted_ops, <<"deposit", amount>>)
                                   ELSE accepted_ops
           ELSE /\ UNCHANGED <<balance, transactions, accepted_ops>>
                /\ b_out' = Ended("deposit", amount, balance, "rejected")
        /\ UNCHANGED <<b_pc, account_number, initial_balance>>
        /\ UNCHANGED <<retryVars, configVars, procVars, fetchVars, fileVars, searchVars, registerVars>>

\* Mutation of withdraw: the preconditions are tested after the operation.
withdrawChecksLate(amount) ==
    LET pre == /\ IsNumber(amount)
               /\ Gt(amount, Zero)
               /\ Ge(balance, amount)
               /\ _check_invariants(account_number, balance)
        new == IF IsNumber(amount) THEN Minus(balance, amount) ELSE balance
    IN  /\ b_pc = "open"
        /\ Len(transactions) < MaxOps
        /\ balance' = new
        /\ transactions' = Append(transactions, <<"Withdrawal", amount>>)
        /\ b_out' = Ended("withdraw", amount, balance,
                          IF pre THEN "accepted" ELSE "rejected")
        /\ accepted_ops' = IF pre THEN Append(accepted_ops, <<"withdraw", amount>>)
                           ELSE accepted_ops
        /\ UNCHANGED <<b_pc, account_number, initial_balance>>
        /\ UNCHANGED <<retryVars, configVars, procVars, fetchVars, fileVars, searchVars,
                       registerVars>>

\* account.withdraw(amount): lines 64-94; preconditions at lines 79-82,
\* postconditions at lines 91-94.
withdraw(amount) ==
    LET pre == /\ IsNumber(amount)
               /\ Gt(amount, Zero)
               /\ Ge(balance, amount)
               /\ _check_invariants(account_number, balance)
        new == Minus(balance, amount)
        post == /\ EqNum(new, Minus(balance, amount))
                /\ Ge(new, Zero)
                /\ _check_invariants(account_number, new)
    IN  /\ b_pc = "open"
        /\ Len(transactions) < MaxOps
        /\ IF pre
           THEN /\ balance' = new
                /\ transactions' = Append(transactions, <<"Withdrawal", amount>>)
                /\ b_out' = Ended("withdraw", amount, balance,
                                  IF post THEN "accepted" ELSE "failed")
                /\ accepted_ops' = IF post THEN Append(accepted_ops, <<"withdraw", amount>>)
                                   ELSE accepted_ops
           ELSE /\ UNCHANGED <<balance, transactions, accepted_ops>>
                /\ b_out' = Ended("withdraw", amount, balance, "rejected")
        /\ UNCHANGED <<b_pc, account_number, initial_balance>>
        /\ UNCHANGED <<retryVars, configVars, procVars, fetchVars, fileVars, searchVars, registerVars>>

(***************************************************************************)
(* binary_search (ex5_design_by_contract.py)                               *)
(***************************************************************************)

\* Bounds of the inputs
MaxListLen == 4
MaxValue == 3

\* Lists of integers, sorted or not, and the targets searched for.
IntLists == UNION {[1..n -> 1..MaxValue] : n \in 0..MaxListLen}
Targets == 0..(MaxValue + 1)

\* Mutation of is_sorted: equal neighbours are not accepted.
is_sortedStrictly(lst) == \A j \in 1..(Len(lst) - 1) : lst[j] < lst[j + 1]

\* Lines 192-194.
is_sorted(lst) == \A j \in 1..(Len(lst) - 1) : lst[j] <= lst[j + 1]

\* sorted_list[k] for a Python index k
At(lst, k) == lst[k + 1]

NotSearched == [kind |-> "none", index |-> 0 - 1]

SearchIdle ==
    /\ bs_pc = "idle"
    /\ sorted_list = <<>>
    /\ target = 0
    /\ original_list = <<>>
    /\ left = 0
    /\ right = 0 - 1
    /\ bs_steps = 0
    /\ bs_out = NotSearched

\* binary_search(lst, t): the preconditions of lines 166-168, then lines
\* 171-174.  A failed assertion ends the call.
SearchCall(lst, t) ==
    /\ bs_pc = "idle"
    /\ sorted_list' = lst
    /\ target' = t
    /\ bs_steps' = 0
    /\ IF Len(lst) > 0 /\ is_sorted(lst)
       THEN /\ original_list' = lst
            /\ left' = 0
            /\ right' = Len(lst) - 1
            /\ bs_pc' = "loop"
            /\ UNCHANGED bs_out
       ELSE /\ bs_out' = [kind |-> "AssertionError", index |-> 0 - 1]
            /\ bs_pc' = "done"
            /\ UNCHANGED <<original_list, left, right>>
    /\ UNCHANGED <<retryVars, configVars, procVars, fetchVars, fileVars, bankVars, registerVars>>

\* One iteration of the while loop: lines 176-184.
SearchStep ==
    LET mid == (left + right) \div 2
    IN  /\ bs_pc = "loop"
        /\ left <= right
        /\ bs_steps' = bs_steps + 1
        /\ IF At(sorted_list, mid) = target
           THEN /\ bs_out' = IF /\ 0 <= mid /\ mid < Len(sorted_list)
                                /\ sorted_list = original_list
                             THEN [kind |-> "returned", index |-> mid]
                             ELSE [kind |-> "AssertionError", index |-> 0 - 1]
                /\ bs_pc' = "done"
                /\ UNCHANGED <<left, right>>
           ELSE IF At(sorted_list, mid) < target
           THEN /\ left' = mid + 1
                /\ UNCHANGED <<right, bs_out, bs_pc>>
           ELSE /\ right' = mid - 1
                /\ UNCHANGED <<left, bs_out, bs_pc>>
        /\ UNCHANGED <<sorted_list, target, original_list>>
        /\ UNCHANGED <<retryVars, configVars, procVars, fetchVars, fileVars, bankVars, registerVars>>

\* The loop condition fails: lines 186-188.
SearchNotFound ==
    /\ bs_pc = "loop"
    /\ left > right
    /\ bs_out' = IF sorted_list = original_list
                 THEN [kind |-> "returned", index |-> 0 - 1]
                 ELSE [kind |-> "AssertionError", index |-> 0 - 1]
    /\ bs_pc' = "done"
    /\ UNCHANGED <<sorted_list, target, original_list, left, right, bs_steps>>
    /\ UNCHANGED <<retryVars, configVars, procVars, fetchVars, fileVars, bankVars, registerVars>>

(***************************************************************************)
(* register_user (ex3_custom_exceptions.py)                                *)
(***************************************************************************)

\* Arguments: a str is its sequence of characters, a number its value.
PyStr(cs) == [type |-> "str", chars |-> cs, n |-> 0]
PyInt(k) == [type |-> "int", chars |-> <<>>, n |-> k]
PyBool(k) == [type |-> "bool", chars |-> <<>>, n |-> k]
PyFloat(k) == [type |-> "float", chars |-> <<>>, n |-> k]
PyNone == [type |-> "NoneType", chars |-> <<>>, n |-> 0]

\* str.isupper, str.islower, str.isdigit and \s on the characters used.
Uppercase == {"A", "S", "P"}
Lowercase == {"a", "b", "c", "d", "e", "i", "m", "n", "r", "s", "u", "w"}
Digits == {"1", "2", "3"}
Whitespace == {" ", "\n", "\t"}

\* line 67, lines 97 and 100
min_password_length == 8
min_age == 13
age_limit == 150

\* line 105
EXISTING_USERS ==
    {<<"a", "d", "m", "i", "n">>,
     <<"u", "s", "e", "r", "1", "2", "3">>,
     <<"t", "e", "s", "t", "u", "s", "e", "r">>,
     <<"j", "o", "h", "n", "_", "d", "o", "e">>}

\* The arguments tried.
Usernames ==
    {PyInt(123), PyNone, PyStr(<<>>), PyStr(<<" ", " ">>),
     PyStr(<<"a", "d", "m", "i", "n">>), PyStr(<<"u", "s", "e", "r">>)}
Emails ==
    {PyInt(5), PyStr(<<>>), PyStr(<<"a", "@", "b">>), PyStr(<<"a", "@", "b", ".", "c">>),
     PyStr(<<"a", " ", "@", "b", ".", "c">>), PyStr(<<"a", "@", "@", "b", ".", "c">>),
     PyStr(<<"a", "@", ".", "c">>), PyStr(<<"a", "@", "b", ".", "c", "\n">>)}
Passwords ==
    {PyNone, PyStr(<<"w", "e", "a", "k">>),
     PyStr(<<"S", "e", "c", "u", "r", "e", "1">>),
     PyStr(<<"s", "e", "c", "u", "r", "e", "1", "2">>),
     PyStr(<<"S", "E", "C", "U", "R", "E", "1", "2">>),
     PyStr(<<"S", "e", "c", "u", "r", "e", "P", "w">>),
     PyStr(<<"S", "e", "c", "u", "r", "e", "1", "2">>)}
Ages ==
    {PyStr(<<"2", "5">>), PyFloat(25), PyBool(1), PyInt(0 - 1), PyInt(12), PyInt(13),
     PyInt(25), PyInt(149), PyInt(150)}

\* isinstance(v, str); isinstance(v, int), which a bool satisfies.
IsStr(v) == v.type = "str"
IsInt(v) == v.type \in {"int", "bool"}

\* line 43-44: re.match(r'^[^@\s]+@[^@\s]+\.[^@\s]+$', email).  `$` matches
\* at the end and before a newline that ends the string.
PatternBody(s) ==
    \E at, dot \in 1..Len(s) :
        /\ s[at] = "@"
        /\ s[dot] = "."
        /\ at >= 2
        /\ dot >= at + 2
        /\ dot <= Len(s) - 1
        /\ \A j \in 1..Len(s) : j # at => s[j] \notin ({"@"} \cup Whitespace)
EmailMatches(s) ==
    \/ PatternBody(s)
    \/ Len(s) >= 1 /\ s[Len(s)] = "\n" /\ PatternBody(SubSeq(s, 1, Len(s) - 1))

\* username.strip()
Strip(s) ==
    LET inner == {j \in 1..Len(s) : s[j] \notin Whitespace}
    IN  IF inner = {} THEN <<>>
        ELSE SubSeq(s, CHOOSE j \in inner : \A k \in inner : j <= k,
                       CHOOSE j \in inner : \A k \in inner : j >= k)

NoError == "none"

\* Lines 125-132: the three checks of the username.
validate_username(v) ==
    IF ~IsStr(v) THEN "UserRegistrationError"
    ELSE IF Len(v.chars) = 0 \/ Len(Strip(v.chars)) = 0 THEN "UserRegistrationError"
    ELSE IF v.chars \in EXISTING_USERS THEN "UsernameUnavailableError"
    ELSE NoError

\* Lines 29-45.
validate_email(v) ==
    IF ~IsStr(v) THEN "InvalidEmailError"
    ELSE IF ~EmailMatches(v.chars) THEN "InvalidEmailError"
    ELSE NoError

\* Lines 48-77.
validate_password(v) ==
    IF ~IsStr(v) THEN "WeakPasswordError"
    ELSE IF Len(v.chars) < min_password_length THEN "WeakPasswordError"
    ELSE IF ~\E j \in 1..Len(v.chars) : v.chars[j] \in Uppercase THEN "WeakPasswordError"
    ELSE IF ~\E j \in 1..Len(v.chars) : v.chars[j] \in Lowercase THEN "WeakPasswordError"
    ELSE IF ~\E j \in 1..Len(v.chars) : v.chars[j] \in Digits THEN "WeakPasswordError"
    ELSE NoError

\* Lines 80-101.
validate_age(v) ==
    IF ~IsInt(v) THEN "InvalidAgeError"
    ELSE IF v.n < min_age THEN "InvalidAgeError"
    ELSE IF v.n >= age_limit THEN "InvalidAgeError"
    ELSE NoError

\* Mutation of NextCheck: the age is validated before the email.
NextCheckAgeFirst(stage) ==
    CASE stage = "username" -> "age"
      [] stage = "age" -> "email"
      [] stage = "email" -> "password"
      [] stage = "password" -> "return"

\* Lines 124-140: the statement that follows each validation.
NextCheck(stage) ==
    CASE stage = "username" -> "email"
      [] stage = "email" -> "password"
      [] stage = "password" -> "age"
      [] stage = "age" -> "return"

NotRegistered ==
    [kind |-> "none", exc |-> NoError, status |-> "",
     username |-> PyNone, email |-> PyNone, age |-> PyNone]

RegisterIdle ==
    /\ g_pc = "idle"
    /\ username = PyNone
    /\ email = PyNone
    /\ password = PyNone
    /\ age = PyNone
    /\ g_out = NotRegistered

\* register_user(u, e, p, a) is called.
RegisterCall(u, e, p, a) ==
    /\ g_pc = "idle"
    /\ username' = u
    /\ email' = e
    /\ password' = p
    /\ age' = a
    /\ g_pc' = "username"
    /\ UNCHANGED g_out
    /\ UNCHANGED <<retryVars, configVars, procVars, fetchVars, fileVars, bankVars,
                   searchVars>>

\* One validation: it raises, or the next statement runs.
Validated(stage, error) ==
    /\ g_pc = stage
    /\ IF error = NoError
       THEN /\ g_pc' = NextCheck(stage)
            /\ UNCHANGED g_out
       ELSE /\ g_pc' = "done"
            /\ g_out' = [NotRegistered EXCEPT !.kind = "raised", !.exc = error]
    /\ UNCHANGED <<username, email, password, age>>
    /\ UNCHANGED <<retryVars, configVars, procVars, fetchVars, fileVars, bankVars,
                   searchVars>>

\* Lines 125-132, 135, 136 and 137.
CheckUsername ==
    /\ g_pc = "username"
    /\ Validated("username", validate_username(username))
CheckEmail ==
    /\ g_pc = "email"
    /\ Validated("email", validate_email(email))
CheckPassword ==
    /\ g_pc = "password"
    /\ Validated("password", validate_password(password))
CheckAge ==
    /\ g_pc = "age"
    /\ Validated("age", validate_age(age))

\* Lines 140-146.
RegisterReturn ==
    /\ g_pc = "return"
    /\ g_out' = [kind |-> "returned", exc |-> NoError, status |-> "registered",
                 username |-> username, email |-> email, age |-> age]
    /\ g_pc' = "done"
    /\ UNCHANGED <<username, email, password, age>>
    /\ UNCHANGED <<retryVars, configVars, procVars, fetchVars, fileVars, bankVars,
                   searchVars>>

(***************************************************************************)
(* Specifications                                                          *)
(***************************************************************************)

Init == RetryIdle /\ ConfigIdle /\ ProcIdle /\ FetchIdle /\ FileIdle /\ BankIdle
        /\ SearchIdle /\ RegisterIdle

\* The callers.  The guards ahead of the quantifiers keep the input sets from
\* being enumerated in states where the call cannot start.
CallRetry ==
    /\ r_pc = "idle"
    /\ \E n \in (0 - 1)..MaxAttempts, b \in 0..MaxBaseDelay, m \in 0..MaxMaxDelay :
          RetryCall(n, b, m)

CallConstructor ==
    /\ c_pc = "new"
    /\ \E src \in Sources : Construct(src)

CallProcessData ==
    /\ p_pc \in {"idle", "done"}
    /\ calls < MaxCalls
    /\ \E d \in BatchesUpTo(BatchBound(calls + 1)), patch \in Patches :
          ProcessStart(d, patch)

NextRetry ==
    \/ CallRetry
    \/ \E v \in FuncResults : AttemptReturns(v)
    \/ \E t \in FuncErrors : AttemptRaises(t)
    \/ RaiseLast

CallFetch ==
    /\ f_pc = "idle"
    /\ \E uid \in UserIds : FetchStart(uid)

CallWith ==
    /\ s_pc = "idle"
    /\ \E f \in Files, m \in Modes : Enter(f, m)

CallBankAccount ==
    /\ b_pc = "new"
    /\ \E number \in AccountNumbers, initial \in Amounts : Open(number, initial)

CallBinarySearch ==
    /\ bs_pc = "idle"
    /\ \E lst \in IntLists, t \in Targets : SearchCall(lst, t)

CallRegisterUser ==
    /\ g_pc = "idle"
    /\ \E u \in Usernames, e \in Emails, p \in Passwords, a \in Ages :
          RegisterCall(u, e, p, a)

NextConfig ==
    \/ CallConstructor
    \/ \E key \in GetKeys, args \in GetArgs : GetCall(key, args)
    \/ ValidateCall

NextProc ==
    \/ CallProcessData
    \/ \E r \in RandomDraws : ProcessItem(r)
    \/ ProcessFinish

NextFetch ==
    \/ CallFetch
    \/ FetchRetry
    \/ \E v \in Responses : AttemptReturns(v)
    \/ \E t \in FuncErrors : AttemptRaises(t)
    \/ RaiseLast
    \/ FetchReturn

NextFile ==
    \/ CallWith
    \/ BodyUses
    \/ BodyCompletes
    \/ \E e \in BodyErrors, closes_generator \in BOOLEAN : BodyRaises(e, closes_generator)
    \/ Collected

NextBank ==
    \/ CallBankAccount
    \/ \E amount \in Amounts : deposit(amount)
    \/ \E amount \in Amounts : withdraw(amount)

NextSearch ==
    \/ CallBinarySearch
    \/ SearchStep
    \/ SearchNotFound

NextRegister ==
    \/ CallRegisterUser
    \/ CheckUsername
    \/ CheckEmail
    \/ CheckPassword
    \/ CheckAge
    \/ RegisterReturn

SpecRetry == Init /\ [][NextRetry]_vars
\* retry_with_backoff runs on once called, as long as func() and time.sleep()
\* come back: its steps are taken.
SpecRetryFair == Init /\ [][NextRetry]_vars /\ WF_vars(NextRetry)
SpecConfig == Init /\ [][NextConfig]_vars
SpecProc == Init /\ [][NextProc]_vars
SpecFetch == Init /\ [][NextFetch]_vars
SpecFile == Init /\ [][NextFile]_vars
SpecBank == Init /\ [][NextBank]_vars
SpecRegister == Init /\ [][NextRegister]_vars
\* binary_search runs to its end once called: its steps are taken.
SpecSearch == Init /\ [][NextSearch]_vars /\ WF_vars(NextSearch)

(***************************************************************************)
(* Properties of retry_with_backoff (checked under SpecRetry)              *)
(***************************************************************************)

FuncCalls == CallsOf(log)
Sleeps == SleepsOf(log)
EveryCallFailed == \A j \in 1..Len(FuncCalls) : ~FuncCalls[j].ok
SomeCallSucceeded == \E j \in 1..Len(FuncCalls) : FuncCalls[j].ok

\* C1: with max_attempts = n >= 1 and an operation that fails on every call,
\* the operation is called exactly n times and the call raises the exception
\* object of the n-th call; with n = 1 nothing is slept.
C1_RaisesLastFailure ==
    (r_pc = "done" /\ max_attempts >= 1 /\ EveryCallFailed) =>
        /\ Len(FuncCalls) = max_attempts
        /\ r_out.kind = "raised"
        /\ r_out.val = FuncCalls[max_attempts].x
        /\ \A j \in 1..(max_attempts - 1) : r_out.val # FuncCalls[j].x
        /\ (max_attempts = 1 => Sleeps = <<>>)

C1_Witness ==
    /\ r_pc = "done"
    /\ max_attempts = 3
    /\ EveryCallFailed
    /\ Len(FuncCalls) = 3
    /\ FuncCalls[1].x[1] = "ValueError"
    /\ r_out = [kind |-> "raised", val |-> <<"NetworkError", 3>>]

\* C2: with an operation that fails on every call, there are exactly n-1
\* sleeps; the sleep number k+1 (k in 0..n-2) comes right after call k+1 and
\* before call k+2 and lasts min(base_delay * 2^k, max_delay), which is at
\* most max_delay; the last event is the n-th call, with no sleep after it.
C2_BackoffSchedule ==
    (r_pc = "done" /\ max_attempts >= 1 /\ EveryCallFailed) =>
        /\ Len(Sleeps) = max_attempts - 1
        /\ Len(log) = 2 * max_attempts - 1
        /\ \A k \in 0..(max_attempts - 2) :
              /\ IsCall(log[2 * k + 1])
              /\ IsSleep(log[2 * k + 2])
              /\ log[2 * k + 2].x[2] = Min(base_delay * (2 ^ k), max_delay)
              /\ log[2 * k + 2].x[2] <= max_delay
        /\ IsCall(log[Len(log)])

C2_Witness ==
    /\ r_pc = "done"
    /\ max_attempts = 4
    /\ base_delay = 1
    /\ max_delay = 3
    /\ EveryCallFailed
    /\ Len(Sleeps) = 3
    /\ Sleeps[1].x[2] = 1
    /\ Sleeps[2].x[2] = 2
    /\ Sleeps[3].x[2] = 3

\* C3: when the operation first succeeds on its k-th call, k <= max_attempts,
\* it is called exactly k times, the call returns the value of the k-th call,
\* there are exactly k-1 sleeps, and the successful call is the last event.
C3_StopsAtFirstSuccess ==
    (r_pc = "done" /\ SomeCallSucceeded) =>
        LET k == Len(FuncCalls)
        IN  /\ k <= max_attempts
            /\ FuncCalls[k].ok
            /\ \A j \in 1..(k - 1) : ~FuncCalls[j].ok
            /\ r_out = [kind |-> "returned", val |-> FuncCalls[k].x]
            /\ Len(Sleeps) = k - 1
            /\ log[Len(log)] = FuncCalls[k]

C3_Witness ==
    /\ r_pc = "done"
    /\ max_attempts = 4
    /\ Len(FuncCalls) = 3
    /\ FuncCalls[3].ok
    /\ Len(Sleeps) = 2
    /\ r_out.kind = "returned"

(***************************************************************************)
(* Properties of ConfigManager (checked under SpecConfig)                  *)
(***************************************************************************)

\* C4: constructing a ConfigManager never raises, whatever the load meets,
\* and afterwards the configuration is the loaded content or the defaults.
C4_ConstructionNeverRaises ==
    c_pc # "new" =>
        /\ c_pc = "constructed"
        /\ c_raised = None
        /\ \/ config = Dict(defaults)
           \/ source.kind = "json" /\ config = source.value

\* A failure while validating: the file holds a JSON array.
C4_Witness ==
    /\ c_pc = "constructed"
    /\ source = [kind |-> "json", value |-> NonDict("list")]
    /\ config = Dict(defaults)

GetWasCalled == last_get # NoGet

\* C5 as claimed: the stored value, else the fallback if the caller supplied
\* one, else the default, else None; a supplied fallback is what comes back
\* for a key in neither mapping, and for a default key the file omits.
C5_SuppliedFallbackWins ==
    GetWasCalled =>
        LET key == last_get.key
        IN  /\ last_get.result =
                  IF key \in DOMAIN config.items THEN config.items[key]
                  ELSE IF last_get.supplied THEN last_get.fallback
                  ELSE IF key \in DOMAIN defaults THEN defaults[key]
                  ELSE None
            /\ (key \notin DOMAIN config.items /\ last_get.supplied)
                  => last_get.result = last_get.fallback

\* C5 as amended: the stored value, else the fallback if the caller supplied
\* one that is not None, else the default, else None; a supplied fallback
\* other than None comes back for a key in neither mapping and for a default
\* key the loaded file omits, and for a key in neither mapping the result is
\* the fallback argument in every case.
C5_NonNoneFallbackWins ==
    GetWasCalled =>
        LET key == last_get.key
            given == last_get.supplied /\ last_get.fallback # None
        IN  /\ last_get.result =
                  IF key \in DOMAIN config.items THEN config.items[key]
                  ELSE IF given THEN last_get.fallback
                  ELSE IF key \in DOMAIN defaults THEN defaults[key]
                  ELSE None
            /\ (key \notin DOMAIN config.items /\ given)
                  => last_get.result = last_get.fallback
            /\ (key \notin DOMAIN config.items /\ key \notin DOMAIN defaults)
                  => last_get.result = last_get.fallback

\* A file that omits the default key timeout, and get('timeout', fallback).
C5_Witness ==
    /\ GetWasCalled
    /\ source.kind = "json"
    /\ config = source.value
    /\ last_get.key = "timeout"
    /\ "timeout" \notin DOMAIN config.items
    /\ last_get.supplied
    /\ last_get.fallback = <<"int", 0>>
    /\ last_get.result = <<"int", 0>>

(***************************************************************************)
(* Properties of DataProcessor (checked under SpecProc)                    *)
(***************************************************************************)

TransformAll(s) == [j \in 1..Len(s) |-> Transformed(s[j])]
MalformedIn(s) == Len(SelectSeq(s, Malformed))
AllMalformed(s) == \A j \in 1..Len(s) : Malformed(s[j])
\* The items up to the one whose failure spends the budget of a new instance.
UpToBudget(s) ==
    IF MalformedIn(s) < max_errors THEN s
    ELSE SubSeq(s, 1, CHOOSE j \in 1..Len(s) :
                        Malformed(s[j]) /\ MalformedIn(SubSeq(s, 1, j)) = max_errors)

FirstCallDone == p_pc = "done" /\ calls = 1
FaultsDisabled == random_patch # Unpatched /\ random_patch >= FailureRate
Successes == SelectSeq(attempts, LAMBDA a : a.ok)
Failures == SelectSeq(attempts, LAMBDA a : ~a.ok)

\* C6 as claimed: for every batch of N items of which M are malformed, with
\* faults disabled, a new processor returns the N - M well-formed items,
\* transformed and in order, and error_count is M.  Stated for the batches
\* with N >= 1, on which the call returns; the empty batch belongs to C8.
C6_ReturnsAllWellFormed ==
    (FirstCallDone /\ FaultsDisabled /\ Len(data) >= 1) =>
        /\ p_out.kind = "returned"
        /\ p_out.list = TransformAll(SelectSeq(data, WellFormed))
        /\ Len(p_out.list) = Len(data) - MalformedIn(data)
        /\ error_count = MalformedIn(data)

\* C6 as amended: for every batch of N >= 1 items of which M are malformed,
\* with faults disabled, a new processor returns the well-formed items that
\* come before the max_errors-th malformed item (all N - M of them when
\* M < max_errors), transformed and in order, and error_count is
\* min(M, max_errors).
C6_ReturnsWellFormedWithinBudget ==
    (FirstCallDone /\ FaultsDisabled /\ Len(data) >= 1) =>
        /\ p_out.kind = "returned"
        /\ p_out.list = TransformAll(SelectSeq(UpToBudget(data), WellFormed))
        /\ MalformedIn(data) < max_errors
              => Len(p_out.list) = Len(data) - MalformedIn(data)
        /\ error_count = Min(MalformedIn(data), max_errors)

\* Six items, all malformed but the last one: the budget is spent before it.
C6_Witness ==
    /\ FirstCallDone
    /\ FaultsDisabled
    /\ Len(data) = 6
    /\ MalformedIn(data) = 5
    /\ WellFormed(data[6])
    /\ p_out = [kind |-> "returned", exc |-> None, list |-> <<>>]
    /\ error_count = 5

\* C7: for a batch of N items, all malformed, with max_errors = E < N, a new
\* processor attempts exactly the first E items, returns the empty list and
\* has error_count = E.
C7_HaltsAtBudget ==
    (FirstCallDone /\ AllMalformed(data) /\ Len(data) > max_errors) =>
        /\ Len(attempts) = max_errors
        /\ \A j \in 1..max_errors : attempts[j].idx = j /\ ~attempts[j].ok
        /\ p_out = [kind |-> "returned", exc |-> None, list |-> <<>>]
        /\ error_count = max_errors

C7_Witness ==
    /\ FirstCallDone
    /\ AllMalformed(data)
    /\ Len(data) = max_errors + 1
    /\ Len(attempts) = max_errors
    /\ p_out.kind = "returned"

\* C8: process_data never raises, whatever the batch, on a new or a used
\* processor.
C8_NeverRaises == p_out.kind # "raised"

\* C9 as claimed: at no point of a call is an item attempted while
\* error_count >= max_errors, and the call returns what it has accumulated.
\* The return is stated for the batches with at least one item, on which the
\* call returns; the empty batch belongs to C8.
C9_NoAttemptOnceBudgetSpent ==
    /\ \A j \in 1..Len(attempts) :
          (IF j = 1 THEN start_errors ELSE attempts[j - 1].errors_after) < max_errors
    /\ (p_pc = "done" /\ error_count >= max_errors /\ Len(data) >= 1) =>
          p_out = [kind |-> "returned", exc |-> None, list |-> processed_items]

\* C9 as amended: once an item attempt has failed and left
\* error_count >= max_errors, no further item of that batch is attempted and
\* the call returns what it has accumulated; while no attempt fails, a
\* processor whose error_count was already >= max_errors keeps attempting.
C9_NoAttemptAfterSpendingFailure ==
    /\ \A j \in 1..Len(attempts) :
          (~attempts[j].ok /\ attempts[j].errors_after >= max_errors) =>
              /\ j = Len(attempts)
              /\ p_pc \in {"finish", "done"}
    /\ (p_pc = "done" /\ Failures # <<>> /\ error_count >= max_errors) =>
          /\ p_out = [kind |-> "returned", exc |-> None, list |-> processed_items]
          /\ Len(processed_items) = Len(Successes)

\* A used processor, budget spent: one item goes through, the next one fails.
C9_Witness ==
    /\ p_pc = "done"
    /\ calls = 2
    /\ start_errors >= max_errors
    /\ Len(data) = 2
    /\ Len(attempts) = 2
    /\ attempts[1].ok
    /\ ~attempts[2].ok

\* C10: error_count never decreases, and it is the number of item attempts
\* that failed over all the calls made on the instance.
C10_ErrorCountCumulative ==
    /\ [](error_count = failed_total)
    /\ [][error_count' >= error_count]_vars

\* Failures in the first call and in the second.
C10_Witness ==
    /\ p_pc = "done"
    /\ calls = 2
    /\ start_errors > 0
    /\ error_count > start_errors

(***************************************************************************)
(* ConfigManager: degraded loads and validation                            *)
(***************************************************************************)

Constructed == c_pc # "new"
ValidateWasCalled == last_validate.called
MissingSource == [kind |-> "missing", value |-> Dict(EmptyMap)]

\* C11: a ConfigManager constructed with a nonexistent source is constructed
\* without an exception, its active configuration equals the built-in
\* defaults, and get(k) with no fallback returns defaults[k] for each of the
\* four default keys.
C11_MissingSourceGivesDefaults ==
    (Constructed /\ source.kind = "missing") =>
        /\ c_pc = "constructed"
        /\ config = Dict(defaults)
        /\ DOMAIN defaults = {"database_url", "cache_size", "timeout", "debug"}
        /\ (GetWasCalled /\ ~last_get.supplied /\ last_get.key \in DOMAIN defaults) =>
               last_get.result = defaults[last_get.key]

C11_Witness ==
    /\ source.kind = "missing"
    /\ GetWasCalled
    /\ ~last_get.supplied
    /\ last_get.key = "database_url"
    /\ last_get.result = <<"str", 0>>

\* What a manager constructed with a nonexistent source is.
MissingSourceManager == _load_config(Dict(EmptyMap), MissingSource)

\* C12: a ConfigManager constructed with a syntactically invalid source is
\* in the state of one constructed with a nonexistent source: constructed
\* without an exception, the same active configuration, and the same result
\* of get(key, fallback) for every key and fallback and of validate_config().
C12_InvalidJsonLikeMissing ==
    (Constructed /\ source.kind = "invalid_json") =>
        /\ c_raised = MissingSourceManager.raised
        /\ c_pc = "constructed"
        /\ config = MissingSourceManager.config
        /\ GetWasCalled =>
               last_get.result =
                   get(MissingSourceManager.config, last_get.key, last_get.fallback)
        /\ ValidateWasCalled =>
               last_validate.issues = validate_config(MissingSourceManager.config)

C12_Witness ==
    /\ source.kind = "invalid_json"
    /\ c_pc = "constructed"
    /\ ValidateWasCalled
    /\ last_validate.issues = <<>>

\* The rule of each known key, as the contract words it: cache_size is a
\* positive integer, timeout a positive number, debug a boolean.
SatisfiesRule(key, v) ==
    CASE key = "cache_size" -> v[1] = "int" /\ v[2] >= 1
      [] key = "timeout" -> v[1] \in {"int", "float"} /\ v[2] > 0
      [] key = "debug" -> v[1] = "bool"

KnownKeys == {"cache_size", "timeout", "debug"}
Restricted(cfg, keys) == Dict([k \in DOMAIN cfg.items \cap keys |-> cfg.items[k]])
IssuesIn(issues) == {issues[k] : k \in 1..Len(issues)}
AllIssues == {IssueOf(k) : k \in KnownKeys}
BadExample ==
    [k \in KnownKeys |->
        CASE k = "cache_size" -> <<"int", 0 - 10>>
          [] k = "timeout" -> <<"str", 1>>
          [] k = "debug" -> <<"str", 1>>]

\* C13: validate_config inspects only cache_size, timeout and debug (the
\* other keys of the configuration do not change its result), returns at most
\* one issue per known key, and returns the empty list when each known key is
\* absent or satisfies its rule; on cache_size -10, timeout "30", debug "yes"
\* it returns exactly three issues, one naming each key.
C13_ValidateChecksKnownKeysOnly ==
    ValidateWasCalled =>
        LET issues == last_validate.issues
        IN  /\ issues = validate_config(Restricted(config, KnownKeys))
            /\ IssuesIn(issues) \subseteq AllIssues
            /\ Cardinality(IssuesIn(issues)) = Len(issues)
            /\ (\A k \in KnownKeys :
                    k \in DOMAIN config.items => SatisfiesRule(k, config.items[k]))
                   => issues = <<>>
            /\ Restricted(config, KnownKeys) = Dict(BadExample)
                   => /\ Len(issues) = 3
                      /\ IssuesIn(issues) = AllIssues

C13_Witness ==
    /\ ValidateWasCalled
    /\ Restricted(config, KnownKeys) = Dict(BadExample)
    /\ "custom_key" \in DOMAIN config.items
    /\ Len(last_validate.issues) = 3

LoadedWithIssues ==
    /\ Constructed
    /\ source.kind = "json"
    /\ source.value.type = "dict"
    /\ validate_config(source.value) # <<>>

\* C14: after a successful load whose content has validation issues, the
\* active configuration is exactly the loaded content, and get(key) returns
\* the loaded value for every loaded key, with or without a fallback.
C14_InvalidContentKept ==
    LoadedWithIssues =>
        /\ c_pc = "constructed"
        /\ config = source.value
        /\ (GetWasCalled /\ last_get.key \in DOMAIN source.value.items) =>
               last_get.result = source.value.items[last_get.key]

C14_Witness ==
    /\ LoadedWithIssues
    /\ GetWasCalled
    /\ last_get.key = "cache_size"
    /\ last_get.result = <<"int", 0 - 10>>

KeyInConfig == last_get.key \in DOMAIN config.items
KeyInDefaults == last_get.key \in DOMAIN defaults
FallbackGiven == last_get.supplied /\ last_get.fallback # None

\* C15: get returns None only when the key is in none of the active
\* configuration, a supplied fallback, or the defaults; whenever the key is
\* present in the loaded configuration or in the defaults, the result of get
\* is not None.
C15_NoneOnlyWhenNowhere ==
    GetWasCalled =>
        /\ last_get.result = None => ~(KeyInConfig \/ FallbackGiven \/ KeyInDefaults)
        /\ (KeyInConfig \/ KeyInDefaults) => last_get.result # None

(***************************************************************************)
(* retry_with_backoff: a retry policy without attempts                     *)
(***************************************************************************)

RetryWasCalled == r_pc # "idle"

\* C16: retry_with_backoff called with a non-positive max_attempts never
\* invokes the operation, never sleeps and never returns a result: the loop
\* is not entered and the call ends with an exception, the TypeError of
\* raising None.
C16_NonPositiveAttemptsFailAtOnce ==
    (RetryWasCalled /\ max_attempts <= 0) =>
        /\ log = <<>>
        /\ r_pc \in {"exhausted", "done"}
        /\ r_out.kind # "returned"
        /\ r_pc = "done" => r_out = [kind |-> "raised", val |-> <<"TypeError", 0>>]

C16_Witness ==
    /\ r_pc = "done"
    /\ max_attempts = 0 - 1
    /\ log = <<>>
    /\ r_out.kind = "raised"

(***************************************************************************)
(* DataProcessor: what the returned list holds                             *)
(***************************************************************************)

\* The positions of the input whose attempt succeeded, in the order attempted.
SucceededAt == [k \in 1..Len(Successes) |-> Successes[k].idx]
\* An input item with the two keys the processing adds.
Stamped(item) ==
    Dict(("processed_at" :> Now) @@ ("status" :> <<"str", 0>>) @@ item.items)
WellFormedAmong(n) == {j \in 1..n : data[j].type = "dict" /\ "id" \in DOMAIN data[j].items}
PositionsOf(s) == {s[k] : k \in 1..Len(s)}

\* C17: the list process_data returns holds the transformed versions of
\* exactly the attempted items that succeeded, in the order of the input: one
\* entry per succeeded position, positions strictly increasing (no item
\* twice), each a position of the input; with random failures disabled the
\* succeeded items are the well-formed ones among those attempted.
C17_ReturnsSucceededInOrder ==
    p_out.kind = "returned" =>
        /\ Len(p_out.list) = Len(SucceededAt)
        /\ \A k \in 1..Len(SucceededAt) :
              /\ SucceededAt[k] \in 1..Len(data)
              /\ SucceededAt[k] <= Len(attempts)
              /\ p_out.list[k] = Stamped(data[SucceededAt[k]])
        /\ \A k, l \in 1..Len(SucceededAt) : k < l => SucceededAt[k] < SucceededAt[l]
        /\ PositionsOf(SucceededAt) \subseteq WellFormedAmong(Len(attempts))
        /\ FaultsDisabled => PositionsOf(SucceededAt) = WellFormedAmong(Len(attempts))

\* A batch with a malformed item between two successes and a random failure
\* of a well-formed item.
C17_Witness ==
    /\ p_out.kind = "returned"
    /\ Len(p_out.list) >= 2
    /\ \E k \in 1..(Len(SucceededAt) - 1) :
          /\ SucceededAt[k + 1] = SucceededAt[k] + 2
          /\ Malformed(data[SucceededAt[k] + 1])
    /\ \E j \in WellFormedAmong(Len(attempts)) : j \notin PositionsOf(SucceededAt)

(***************************************************************************)
(* fetch_user_data                                                         *)
(***************************************************************************)

FetchDone == f_pc = "done"
Field(rec, k) == rec.items[k]
LastCall == FuncCalls[Len(FuncCalls)]

\* C18: fetch_user_data(user_id) never raises and never returns None.  If a
\* network call succeeds within the 3 attempts, the record returned has status
\* 'active' and last_seen equal to the timestamp of that response; if all 3
\* attempts fail, it is the fallback record: status 'fallback', name
\* 'Guest User', last_seen None.  In both cases the record's id is user_id.
C18_FetchAlwaysReturnsRecord ==
    FetchDone =>
        /\ f_out.kind = "returned"
        /\ f_out.val.type = "dict"
        /\ Field(f_out.val, "id") = user_id
        /\ Len(FuncCalls) \in 1..3
        /\ SomeCallSucceeded =>
              /\ Field(f_out.val, "status") = <<"active", 0>>
              /\ Field(f_out.val, "last_seen") = Field(LastCall.x, "timestamp")
        /\ EveryCallFailed =>
              /\ Len(FuncCalls) = 3
              /\ Field(f_out.val, "status") = <<"fallback", 0>>
              /\ Field(f_out.val, "name") = <<"Guest User", 0>>
              /\ Field(f_out.val, "last_seen") = None

\* The third attempt succeeds.
C18_Witness ==
    /\ FetchDone
    /\ Len(FuncCalls) = 3
    /\ SomeCallSucceeded
    /\ Field(f_out.val, "last_seen") = <<"float", 2>>
    /\ user_id = <<"int", 2>>

(***************************************************************************)
(* safe_file_operation                                                     *)
(***************************************************************************)

ScopeLeft == s_pc = "left"
Entered == s_pc # "idle"
OpenFailed == OpenRaises(file, mode) # "none"

\* C19: every file handle opened by safe_file_operation is closed by the time
\* the with-scope has been left, whether the body completed or raised; when
\* opening fails the body receives None, nothing is left open, and a body
\* that completes leaves the scope without an exception.
C19_ClosedOnEveryExit ==
    /\ (ScopeLeft /\ ~OpenFailed) => file_handle = "closed"
    /\ (Entered /\ OpenFailed) =>
          /\ yielded = "None"
          /\ file_handle = "None"
          /\ s_out.kind = "raised" => s_out.exc[1] \in BodyErrors

(***************************************************************************)
(* BankAccount                                                             *)
(***************************************************************************)

AccountOpen == b_pc = "open"
LastWithdraw == b_out.op = "withdraw" /\ IsNumber(b_out.amount)

\* C20: after any sequence of deposit and withdraw calls on a BankAccount,
\* calls rejected by a precondition included, balance >= 0 and
\* account_number > 0; a withdraw of more than the balance is rejected and
\* changes nothing; a withdraw of exactly the (positive) balance is accepted
\* and leaves balance 0.
C20_BalanceNeverNegative ==
    AccountOpen =>
        /\ Ge(balance, Zero)
        /\ Gt(account_number, Zero)
        /\ (LastWithdraw /\ Gt(b_out.amount, b_out.before)) =>
              /\ b_out.kind = "rejected"
              /\ balance = b_out.before
        /\ (LastWithdraw /\ EqNum(b_out.amount, b_out.before) /\ Gt(b_out.amount, Zero)) =>
              /\ b_out.kind = "accepted"
              /\ EqNum(balance, Zero)

(***************************************************************************)
(* binary_search                                                           *)
(***************************************************************************)

SearchDone == bs_pc = "done"
Ascending(lst) == \A j, k \in 1..Len(lst) : j < k => lst[j] <= lst[k]
Occurs(t, lst) == \E j \in 1..Len(lst) : lst[j] = t
Acceptable(lst) == Len(lst) >= 1 /\ Ascending(lst)

\* C21: for every non-empty ascending integer list (duplicates allowed) and
\* every target, binary_search terminates; it returns an index i with
\* 0 <= i < len(list) and list[i] = target when the target occurs, -1 when it
\* does not, and the list is unchanged; an empty or unsorted list is rejected
\* with an assertion failure before any search step.
C21_BinarySearchContract ==
    /\ [](SearchDone =>
            IF Acceptable(sorted_list)
            THEN /\ bs_out.kind = "returned"
                 /\ sorted_list = original_list
                 /\ Occurs(target, sorted_list) =>
                       /\ bs_out.index \in 0..(Len(sorted_list) - 1)
                       /\ sorted_list[bs_out.index + 1] = target
                 /\ ~Occurs(target, sorted_list) => bs_out.index = 0 - 1
            ELSE /\ bs_out.kind = "AssertionError"
                 /\ bs_steps = 0)
    /\ [][sorted_list' = sorted_list \/ bs_pc = "idle"]_vars
    /\ (bs_pc = "loop" ~> SearchDone)

\* A list with duplicates of the target, found after more than one step.
C21_Witness ==
    /\ SearchDone
    /\ sorted_list = <<1, 2, 2, 3>>
    /\ target = 3
    /\ bs_out = [kind |-> "returned", index |-> 3]
    /\ bs_steps >= 2

(***************************************************************************)
(* register_user                                                           *)
(***************************************************************************)

RegisterDone == g_pc = "done"
RegistrationErrors ==
    {"UserRegistrationError", "InvalidEmailError", "WeakPasswordError",
     "InvalidAgeError", "UsernameUnavailableError"}
\* The error of the first failing check, in the order username type,
\* username empty, username taken, email, password, age.
FirstFailure ==
    IF username.type # "str" THEN "UserRegistrationError"
    ELSE IF \A j \in 1..Len(username.chars) : username.chars[j] \in Whitespace
         THEN "UserRegistrationError"
    ELSE IF username.chars \in EXISTING_USERS THEN "UsernameUnavailableError"
    ELSE IF validate_email(email) # NoError THEN "InvalidEmailError"
    ELSE IF validate_password(password) # NoError THEN "WeakPasswordError"
    ELSE IF validate_age(age) # NoError THEN "InvalidAgeError"
    ELSE NoError

\* C22: every failure raised by register_user is a UserRegistrationError or
\* one of its four sub-kinds, namely that of the first failing check in the
\* order username type, username empty, username taken, email, password,
\* age; a record with status 'registered' is returned only when all checks
\* pass, and then it is returned.
C22_FirstFailingCheckReported ==
    RegisterDone =>
        /\ g_out.kind \in {"raised", "returned"}
        /\ g_out.kind = "raised" =>
              /\ g_out.exc \in RegistrationErrors
              /\ g_out.exc = FirstFailure
              /\ g_out.status # "registered"
        /\ g_out.kind = "returned" =>
              /\ FirstFailure = NoError
              /\ g_out.status = "registered"
              /\ g_out.username = username
              /\ g_out.email = email
              /\ g_out.age = age

\* A weak password and a wrong age together: the password is reported.
C22_Witness ==
    /\ RegisterDone
    /\ validate_username(username) = NoError
    /\ validate_email(email) = NoError
    /\ validate_password(password) # NoError
    /\ validate_age(age) # NoError
    /\ g_out.exc = "WeakPasswordError"

(***************************************************************************)
(* retry_with_backoff: termination                                         *)
(***************************************************************************)

RetryDone == r_pc = "done"
LastFuncCall == FuncCalls[Len(FuncCalls)]
\* The caller has the operation's result or the last failure.
ResultOrLastFailure ==
    /\ Len(FuncCalls) >= 1
    /\ \/ r_out.kind = "returned" /\ LastFuncCall.ok /\ r_out.val = LastFuncCall.x
       \/ r_out.kind = "raised" /\ ~LastFuncCall.ok /\ r_out.val = LastFuncCall.x
WithinPolicy ==
    /\ Len(FuncCalls) <= max_attempts
    /\ Len(Sleeps) <= max_attempts - 1

\* C23 as stated: for every max_attempts a started call ends, after at most
\* max_attempts calls and at most max_attempts - 1 sleeps, with the
\* operation's result or the last failure.
C23_TerminatesWithResultOrFailure ==
    /\ (RetryWasCalled ~> RetryDone)
    /\ [](RetryDone => WithinPolicy /\ ResultOrLastFailure)

\* C23 amended: every started call ends; with max_attempts >= 1 it ends after
\* at most max_attempts calls and at most max_attempts - 1 sleeps with the
\* operation's result or the last failure; with max_attempts <= 0 it ends
\* without a call or a sleep and the caller has a TypeError.
C23_TerminatesForPositiveAttempts ==
    /\ (RetryWasCalled ~> RetryDone)
    /\ [](RetryDone /\ max_attempts >= 1 => WithinPolicy /\ ResultOrLastFailure)
    /\ [](RetryDone /\ max_attempts <= 0 =>
             /\ log = <<>>
             /\ r_out = [kind |-> "raised", val |-> <<"TypeError", 0>>])

\* Every allowed call and sleep is used, and the last failure is raised.
C23_Witness ==
    /\ RetryDone
    /\ max_attempts = 3
    /\ Len(FuncCalls) = 3
    /\ Len(Sleeps) = 2
    /\ r_out.kind = "raised"

(***************************************************************************)
(* ConfigManager: what validate_config reports                             *)
(***************************************************************************)

\* C24: validate_config reports the issue naming a known key whenever the
\* key is present with a value that does not satisfy its rule (cache_size a
\* positive integer, timeout a positive number, debug a boolean), for every
\* kind of value the JSON source can supply: string, number, boolean, null.
C24_EveryRuleBreachReported ==
    ValidateWasCalled =>
        \A k \in KnownKeys :
            (k \in DOMAIN config.items /\ ~SatisfiesRule(k, config.items[k]))
                => IssueOf(k) \in IssuesIn(last_validate.issues)

\* The source parsed to a JSON value that is not an object.
LoadedNonObject == Constructed /\ source.kind = "json" /\ source.value.type # "dict"

\* C27: after construction the active configuration is always a key-value
\* mapping; when the source parses to a JSON value that is not an object the
\* manager holds the defaults, and get and validate_config answer from them.
C27_ConfigurationIsAlwaysMapping ==
    /\ Constructed => c_pc = "constructed" /\ c_raised = None /\ config.type = "dict"
    /\ LoadedNonObject =>
          /\ config = Dict(defaults)
          /\ GetWasCalled =>
                last_get.result = get(Dict(defaults), last_get.key, last_get.fallback)
          /\ ValidateWasCalled => last_validate.issues = <<>>

C27_Witness ==
    /\ LoadedNonObject
    /\ source.value.type = "NoneType"
    /\ GetWasCalled
    /\ last_get.key = "timeout"
    /\ last_get.result = <<"int", 30>>

(***************************************************************************)
(* DataProcessor: the items returned and the items given                   *)
(***************************************************************************)

AddedKeys == {"processed_at", "status"}
\* The item given at the position of the k-th success.
GivenAt(k) == Successes[k].given

\* C25: each item process_data returns is a dict with the keys of the
\* corresponding input item and processed_at and status, status being
\* 'processed', every other key with the input's value; the items of the
\* input list are, after the call, what they were when given, position by
\* position.
C25_ReturnsStampedCopies ==
    p_out.kind = "returned" =>
        /\ Len(p_out.list) = Len(Successes)
        /\ \A k \in 1..Len(p_out.list) :
              LET out == p_out.list[k]
              IN  /\ out.type = "dict"
                  /\ DOMAIN out.items = DOMAIN GivenAt(k).items \cup AddedKeys
                  /\ out.items["status"] = <<"str", 0>>
                  /\ out.items["processed_at"] = Now
                  /\ \A key \in DOMAIN GivenAt(k).items \ AddedKeys :
                        out.items[key] = GivenAt(k).items[key]
        /\ \A a \in 1..Len(attempts) : data[attempts[a].idx] = attempts[a].given

\* An item that came with a status of its own is returned as 'processed',
\* and the input still holds the old status.
C25_Witness ==
    /\ p_out.kind = "returned"
    /\ Len(p_out.list) >= 2
    /\ "status" \in DOMAIN data[1].items
    /\ data[1].items["status"] = <<"str", 1>>
    /\ p_out.list[1].items["status"] = <<"str", 0>>
    /\ p_out.list[1].items["id"] = <<"int", 1>>

(***************************************************************************)
(* BankAccount: the balance and the transaction history                    *)
(***************************************************************************)

Applied(bal, entry) ==
    IF entry[1] = "deposit" THEN Plus(bal, entry[2]) ELSE Minus(bal, entry[2])
RECURSIVE NetBalance(_, _)
NetBalance(start, entries) ==
    IF entries = <<>> THEN start
    ELSE Applied(NetBalance(start, SubSeq(entries, 1, Len(entries) - 1)),
                 entries[Len(entries)])
LastAccepted == b_out.kind = "accepted"

\* C26: each deposit(a) that is carried out raises balance by exactly a and
\* each withdraw(a) lowers it by exactly a; after any sequence of calls
\* len(transactions) is the number of accepted deposits and withdrawals, and
\* balance is initial_balance plus the accepted deposits minus the accepted
\* withdrawals.
C26_BalanceIsNetOfAccepted ==
    AccountOpen =>
        /\ (LastAccepted /\ b_out.op = "deposit") =>
              EqNum(balance, Plus(b_out.before, b_out.amount))
        /\ (LastAccepted /\ b_out.op = "withdraw") =>
              EqNum(balance, Minus(b_out.before, b_out.amount))
        /\ Len(transactions) = Len(accepted_ops)
        /\ EqNum(balance, NetBalance(initial_balance, accepted_ops))

\* What the contract names as grounds of rejection.
MustReject(op, amount, bal) ==
    \/ ~IsNumber(amount)
    \/ ~Gt(amount, Zero)
    \/ op = "withdraw" /\ Gt(amount, bal)

\* C28: a deposit or withdraw with a non-numeric amount, an amount <= 0, or
\* (withdraw) an amount greater than the balance is rejected and leaves
\* balance and transactions exactly as they were before the call.
C28_RejectedCallChangesNothing ==
    [][(b_pc = "open" /\ MustReject(b_out'.op, b_out'.amount, balance)) =>
          /\ b_out'.kind = "rejected"
          /\ balance' = balance
          /\ transactions' = transactions]_vars

\* An overdraw on an account with a history.
C28_Witness ==
    /\ AccountOpen
    /\ b_out.op = "withdraw"
    /\ b_out.kind = "rejected"
    /\ IsNumber(b_out.amount)
    /\ Gt(b_out.amount, b_out.before)
    /\ Len(transactions) = 2
    /\ balance = <<"float", 1>>

(***************************************************************************)
(* DataProcessor: the account of one call                                  *)
(***************************************************************************)

CallEnded == p_pc = "done"
Attempted == Len(attempts)
ErrorIncrease == error_count - start_errors
StoppedEarly == Attempted < Len(data)

\* C29: when a process_data call on a batch of N items has ended, the number
\* of items attempted is the length of the list of processed items (the
\* result, when the call returns) plus the increase of error_count during
\* the call; it is at most N, and it is less than N only if the last attempt
\* failed and left error_count at or above max_errors.
C29_AttemptsAccounted ==
    CallEnded =>
        /\ p_out.kind = "returned" => p_out.list = processed_items
        /\ Attempted = Len(processed_items) + ErrorIncrease
        /\ Attempted <= Len(data)
        /\ StoppedEarly =>
              /\ Attempted >= 1
              /\ ~attempts[Attempted].ok
              /\ attempts[Attempted].errors_after = error_count
              /\ error_count >= max_errors

\* The second call of a processor stops after its first item, which spends
\* the budget the first call left.
C29_Witness ==
    /\ CallEnded
    /\ calls = 2
    /\ p_out.kind = "returned"
    /\ StoppedEarly
    /\ start_errors = max_errors - 1
    /\ error_count = max_errors
    /\ failed_total > ErrorIncrease

(***************************************************************************)
(* safe_file_operation: one yield, and the body's own exception            *)
(***************************************************************************)

BodyRaised == body_raised # "none"

\* C30: the with-body is given control once per use, with the file handle
\* if the open succeeded and None otherwise; when the body raises after a
\* successful open, the generator has yielded once only and the caller of
\* the with statement observes the exception the body raised.
C30_YieldsOnceBodyErrorSurfaces ==
    /\ Entered => yielded = (IF OpenFailed THEN "None" ELSE "handle")
    /\ (ScopeLeft /\ BodyRaised /\ ~OpenFailed) =>
          /\ yields = 1
          /\ s_out = [kind |-> "raised", exc |-> <<body_raised, 0>>]

====
